---- MODULE Spec2Model ----
(***************************************************************************)
(* Model of main.py, the AdSense-to-BigQuery loader: four AdSenseAPI       *)
(* clients are authenticated, their accounts listed, one report fetched    *)
(* per account, the frames concatenated, and the result pushed to one      *)
(* BigQuery table by delete-then-append.                                   *)
(*                                                                         *)
(* Spec is one execution of the program against any table.  SpecLoad is    *)
(* push_to_bigquery alone, called on the table of two reports and called   *)
(* again when the program is executed again and fetches the same table.    *)
(*                                                                         *)
(* Floats are fixed point, in hundredths.  A DataFrame is a sequence of    *)
(* rows; a row is a function from column names to values, every row of a   *)
(* frame having the frame's columns (a missing value is NaN).  The DELETE  *)
(* query job is a step of the warehouse, apart from the client's wait.     *)
(***************************************************************************)
EXTENDS Integers, Sequences, FiniteSets, TLC

\* ---------------------------------------------------------------- bounds
MaxDay == 2          \* the wall clock runs over the days 1..MaxDay
MaxLoads == 2        \* calls of push_to_bigquery with one input table
MaxAccounts == 2     \* accounts the four credentials expose together
MaxTableRows == 2    \* rows the reports of one execution hold together
MaxInitRows == 1     \* rows the table holds before the execution

\* ------------------------------------------------------------- constants
NumSources == 4      \* adsense_api_1 .. adsense_api_4

Sources == 1..NumSources

\* ----------------------------------------------------------------- dates
\* datetime arithmetic is done on day ordinals; ordinal 0 is 2023-12-30, so
\* that the modelled days cross a month and a year boundary.
Days == 0..MaxDay

\* strftime('%Y-%m-%d') (and the API's DATE dimension): the zero-padded ISO
\* text, kept as its three fields <<year, month, day>>.
strftime(n) ==
    IF n <= 1 THEN <<2023, 12, 30 + n>> ELSE <<2024, 1, n - 1>>

\* SQL's  date >= 'YYYY-MM-DD'  on zero-padded ISO text: lexicographic order.
DateGeq(a, b) ==
    \/ a[1] > b[1]
    \/ a[1] = b[1] /\ a[2] > b[2]
    \/ a[1] = b[1] /\ a[2] = b[2] /\ a[3] >= b[3]

\* --------------------------------------------------------------- columns
Metrics ==
    << "ESTIMATED_EARNINGS", "PAGE_VIEWS", "PAGE_VIEWS_RPM", "CLICKS",
       "AD_REQUESTS_CTR", "COST_PER_CLICK", "TOTAL_IMPRESSIONS",
       "AD_REQUESTS", "MATCHED_AD_REQUESTS", "IMPRESSIONS",
       "INDIVIDUAL_AD_IMPRESSIONS" >>

int_cols ==
    { "CLICKS", "PAGE_VIEWS", "TOTAL_IMPRESSIONS", "IMPRESSIONS",
      "INDIVIDUAL_AD_IMPRESSIONS", "MATCHED_AD_REQUESTS", "AD_REQUESTS" }

KeyCols == { "account_id", "date", "domain", "country" }

\* ---------------------------------------------------------------- values
NaN == << "nan" >>
FloatVal(v) == << "float", v >>
IntVal(n) == << "int", n >>

\* float(cell['value']): the texts the modelled API sends, and their values.
NumericTexts == { "3.0", "3.7", "0.0" }
IsNumeric(text) == text \in NumericTexts
float(text) ==
    CASE text = "3.0" -> FloatVal(300)
      [] text = "3.7" -> FloatVal(370)
      [] text = "0.0" -> FloatVal(0)

\* astype(int) of one float: truncation toward zero.
astype_int(x) ==
    IF x[2] >= 0 THEN IntVal(x[2] \div 100) ELSE IntVal(-((-x[2]) \div 100))

\* ------------------------------------------------------------ DataFrames
Range(s) == { s[i] : i \in 1..Len(s) }
Min(a, b) == IF a <= b THEN a ELSE b

Columns(df) == UNION { DOMAIN df[i] : i \in 1..Len(df) }

Pad(row, cols) == [ c \in cols |-> IF c \in DOMAIN row THEN row[c] ELSE NaN ]

\* pd.DataFrame(rows): the columns are the union of the dicts' keys.
DataFrame(rows) == [ i \in 1..Len(rows) |-> Pad(rows[i], Columns(rows)) ]

\* Mutant of empty: a frame without rows is not seen as empty.
empty_never(df) == FALSE

\* df.empty
empty(df) == Len(df) = 0

\* Mutant of concat: rows that are already in the frame are dropped.
RECURSIVE DropDuplicates(_)
DropDuplicates(rows) ==
    IF rows = <<>> THEN <<>>
    ELSE LET front == DropDuplicates(SubSeq(rows, 1, Len(rows) - 1))
             last == rows[Len(rows)]
         IN  IF \E i \in 1..Len(front) : front[i] = last
             THEN front ELSE Append(front, last)

concat_drop_duplicates(a, b) == DropDuplicates(DataFrame(a \o b))

\* pd.concat([a, b], ignore_index=True)
concat(a, b) == DataFrame(a \o b)

\* ------------------------------------------------------ the reporting API
\* accounts().list(): account k of credential s is named <<"accounts", s, k>>.
AccountName(s, k) == << "accounts", s, k >>

FullCells(text) == [ i \in 1..Len(Metrics) |-> text ]
ShortCells(text) == [ i \in 1..(Len(Metrics) - 1) |-> text ]

\* The metric cells of one report row, as the API may send them: complete,
\* one cell short, or with a text that is no number.
CellChoices == { FullCells("3.0"), ShortCells("3.0"), FullCells("n/a") }

ApiRows(start, end) ==
    { [ date |-> strftime(d), domain |-> "example.com", country |-> "US",
        cells |-> c ] : d \in start..end, c \in CellChoices }

SeqsUpTo(S, n) == UNION { [1..k -> S] : k \in 0..n }

\* reports().generate(...).execute() for the window start..end: the request
\* raises, or answers without a 'rows' key, or answers with at most `most`
\* rows dated in the window.
Reports(start, end, most) ==
    { [ raises |-> TRUE, hasRows |-> FALSE, headers |-> Metrics, rows |-> <<>> ],
      [ raises |-> FALSE, hasRows |-> FALSE, headers |-> Metrics, rows |-> <<>> ] }
    \cup { [ raises |-> FALSE, hasRows |-> TRUE, headers |-> Metrics, rows |-> r ] :
           r \in SeqsUpTo(ApiRows(start, end), most) }

\* ------------------------------------------------- AdSenseAPI.fetch_report
\* zip(report['headers'][3:], row['cells'][3:]) stops at the shorter one.
ZipLen(headers, cells) == Min(Len(headers), Len(cells))

\* float(cell['value']) raises on a text that is no number.
RowRaises(headers, r) ==
    \E i \in 1..ZipLen(headers, r.cells) : ~IsNumeric(r.cells[i])

row_data(account_id, headers, r) ==
    LET n == ZipLen(headers, r.cells)
        names == { headers[i] : i \in 1..n }
    IN  [ c \in KeyCols \cup names |->
            CASE c = "account_id" -> account_id
              [] c = "date" -> r.date
              [] c = "domain" -> r.domain
              [] c = "country" -> r.country
              [] OTHER -> float(r.cells[CHOOSE i \in 1..n : headers[i] = c]) ]

\* Mutant of fetch_except: the exception leaves fetch_report.
fetch_uncaught == [ raised |-> TRUE, df |-> <<>> ]

\* What the except clause of fetch_report does with an exception: it is
\* logged and an empty DataFrame is returned to the caller.
fetch_except == [ raised |-> FALSE, df |-> <<>> ]

\* An exception is raised inside the try block of fetch_report: by the
\* request, or by the conversion of a row.
RequestFails(report) ==
    \/ report.raises
    \/ /\ report.hasRows
       /\ \E i \in 1..Len(report.rows) : RowRaises(report.headers, report.rows[i])

fetch_report(account_id, report) ==
    IF RequestFails(report) THEN fetch_except
    ELSE IF ~report.hasRows THEN [ raised |-> FALSE, df |-> <<>> ]
    ELSE [ raised |-> FALSE,
           df |-> DataFrame([ i \in 1..Len(report.rows) |->
                    row_data(account_id, report.headers, report.rows[i]) ]) ]

\* ------------------------------------------------ AdSenseAPI.list_accounts
\* What the except clause of list_accounts does: an empty list is returned.
list_except == [ raised |-> FALSE, ids |-> <<>> ]

list_accounts(s, raises, n) ==
    IF raises THEN list_except
    ELSE [ raised |-> FALSE, ids |-> [ k \in 1..n |-> AccountName(s, k) ] ]

\* ------------------------------------------ BigQueryClient.push_to_bigquery
\* df[int_cols] raises KeyError when a listed column is not in the frame.
KeyError(df) == ~(int_cols \subseteq Columns(df))

fillna(x) == IF x = NaN THEN FloatVal(0) ELSE x

\* df[int_cols] = df[int_cols].fillna(0).astype(int)
coerce(df) ==
    [ i \in 1..Len(df) |->
        [ c \in DOMAIN df[i] |->
            IF c \in int_cols THEN astype_int(fillna(df[i][c])) ELSE df[i][c] ] ]

NewName(c) ==
    CASE c = "AD_REQUESTS_CTR" -> "ctr"
      [] c = "COST_PER_CLICK" -> "cpc"
      [] OTHER -> c

\* df.rename(columns={'AD_REQUESTS_CTR': 'ctr', 'COST_PER_CLICK': 'cpc'})
rename(df) ==
    [ i \in 1..Len(df) |->
        [ n \in { NewName(c) : c \in DOMAIN df[i] } |->
            df[i][CHOOSE c \in DOMAIN df[i] : NewName(c) = n] ] ]

\* ------------------------------------------------------------ the warehouse
\* WHERE date >= '{previous_date}'
InDeleteWindow(row, previous_date) == DateGeq(row["date"], previous_date)

\* Mutant of DeleteFrom: WHERE date > previous_date.
DeleteFromAfter(table, previous_date) ==
    SelectSeq(table, LAMBDA row : row["date"] # previous_date
                                  => ~InDeleteWindow(row, previous_date))

\* DELETE FROM table WHERE date >= previous_date
DeleteFrom(table, previous_date) ==
    SelectSeq(table, LAMBDA row : ~InDeleteWindow(row, previous_date))

\* pandas_gbq.to_gbq(df, ..., if_exists='append'): one load job.
to_gbq(table, df) == table \o df

\* Mutant of DeleteAcknowledged: the job's result is not waited for.
DeleteNotAwaited(job) == TRUE

\* query_job.result() returns once the job is done.
DeleteAcknowledged(job) == job = "done"

\* A row loaded by an earlier execution of the program.
LegacyRow(d) ==
    rename(coerce(fetch_report(AccountName(1, 1),
        [ raises |-> FALSE, hasRows |-> TRUE, headers |-> Metrics,
          rows |-> << [ date |-> strftime(d), domain |-> "example.com",
                        country |-> "US", cells |-> FullCells("3.0") ] >> ]).df))[1]

\* -------------------------------------------------------------------- state
VARIABLES
    clock,        \* datetime.now(), as a day ordinal
    load,         \* number of the current call of push_to_bigquery
    pc,           \* where the execution stands
    src,          \* the adsense_api_<src> being constructed or iterated
    accounts,     \* account ids of the current source still to fetch
    all_data,     \* process_reports' all_data
    df,           \* push_to_bigquery's renamed frame
    warehouse,    \* rows of the BigQuery table
    deleteJob,    \* the DELETE query job: none, running, done, failed
    cutoff,       \* previous_date of the DELETE issued by this run, or <<>>
    \* history of the current execution
    fetchLog,     \* every fetch_report call: [account, df]
    listedIds,    \* the account ids list_accounts returned, in order
    listed,       \* the sources whose list_accounts was called
    failed,       \* some list or report request of this run raised
    windows,      \* the start dates of the fetch windows used
    pushed,       \* the frame push_to_bigquery was called with
    appended,     \* the rows this run appended
    nDelete,      \* DELETE queries issued by this run
    nAppend,      \* to_gbq calls made by this run
    whAtStart,    \* the table when the run started
    crash,        \* what ended the run with an exception, or "none"
    prevLoaded    \* the rows the previous call of push_to_bigquery appended

vars ==
    << clock, load, pc, src, accounts, all_data, df, warehouse, deleteJob,
       cutoff, fetchLog, listedIds, listed, failed, windows, pushed,
       appended, nDelete, nAppend, whAtStart, crash, prevLoaded >>

runVars ==
    << fetchLog, listedIds, listed, failed, windows, pushed, appended,
       nDelete, nAppend, whAtStart, prevLoaded >>

\* The state of a program that has just been started.
Started(table) ==
    /\ pc = "auth"
    /\ src = 1
    /\ accounts = <<>>
    /\ all_data = <<>>
    /\ df = <<>>
    /\ deleteJob = "none"
    /\ cutoff = <<>>
    /\ fetchLog = <<>>
    /\ listedIds = <<>>
    /\ listed = {}
    /\ failed = FALSE
    /\ windows = {}
    /\ pushed = <<>>
    /\ appended = <<>>
    /\ nDelete = 0
    /\ nAppend = 0
    /\ whAtStart = table
    /\ crash = "none"

Init ==
    /\ clock = 1
    /\ load = 1
    /\ warehouse \in SeqsUpTo({ LegacyRow(d) : d \in Days }, MaxInitRows)
    /\ prevLoaded = <<>>
    /\ Started(warehouse)

\* An exception that nothing catches ends the process with a traceback.
Raise(what) ==
    /\ pc' = "crashed"
    /\ crash' = what

\* ------------------------------------------- AdSenseReportProcessor.__init__
\* AdSenseAPI(...) for credential src: authenticate() succeeds.
AuthOK ==
    /\ pc = "auth"
    /\ IF src < NumSources
       THEN src' = src + 1 /\ pc' = "auth"
       ELSE src' = src /\ pc' = "bq_init"
    /\ UNCHANGED << clock, load, accounts, all_data, df, warehouse, deleteJob,
                    cutoff, crash >>
    /\ UNCHANGED runVars

\* authenticate() raises (the refresh or the OAuth flow fails); __init__ and
\* __main__ catch nothing.
AuthFail ==
    /\ pc = "auth"
    /\ Raise("auth")
    /\ UNCHANGED << clock, load, src, accounts, all_data, df, warehouse,
                    deleteJob, cutoff >>
    /\ UNCHANGED runVars

\* BigQueryClient(): the service account file is read.
BigQueryInit ==
    /\ pc = "bq_init"
    /\ pc' = "list"
    /\ src' = 1
    /\ UNCHANGED << clock, load, accounts, all_data, df, warehouse, deleteJob,
                    cutoff, crash >>
    /\ UNCHANGED runVars

BigQueryInitFail ==
    /\ pc = "bq_init"
    /\ Raise("bq_init")
    /\ UNCHANGED << clock, load, src, accounts, all_data, df, warehouse,
                    deleteJob, cutoff >>
    /\ UNCHANGED runVars

\* ---------------------------------- AdSenseReportProcessor.process_reports
\* Where the loops stand once the accounts `rest` of source s remain and
\* the frame is `data`: the next account, the next source, or the test
\* `if not all_data.empty` after the last loop.
LoopNext(s, rest, data) ==
    IF rest # <<>> THEN [ pc |-> "fetch", src |-> s ]
    ELSE IF s < NumSources THEN [ pc |-> "list", src |-> s + 1 ]
    ELSE IF ~empty(data) THEN [ pc |-> "push", src |-> s ]
    ELSE [ pc |-> "done", src |-> s ]

\* for account_id in adsense_api.list_accounts()
ListAccounts ==
    /\ pc = "list"
    /\ \E raises \in BOOLEAN, n \in 0..(MaxAccounts - Len(listedIds)) :
         LET res == list_accounts(src, raises, n)
             nxt == LoopNext(src, res.ids, all_data)
         IN  /\ accounts' = res.ids
             /\ listedIds' = listedIds \o res.ids
             /\ failed' = (failed \/ raises)
             /\ IF res.raised
                THEN Raise("list") /\ src' = src
                ELSE pc' = nxt.pc /\ src' = nxt.src /\ crash' = crash
    /\ listed' = listed \cup {src}
    /\ UNCHANGED << clock, load, all_data, df, warehouse, deleteJob, cutoff,
                    fetchLog, windows, pushed, appended, nDelete, nAppend,
                    whAtStart, prevLoaded >>

\* df = adsense_api.fetch_report(account_id)
\* all_data = pd.concat([all_data, df], ignore_index=True)
\* Both datetime.now() calls of fetch_report are read as one instant.
FetchReport ==
    /\ pc = "fetch"
    /\ \E report \in Reports(clock - 1, clock, MaxTableRows - Len(all_data)) :
         LET res == fetch_report(Head(accounts), report)
             data == concat(all_data, res.df)
             nxt == LoopNext(src, Tail(accounts), data)
         IN  /\ all_data' = data
             /\ fetchLog' = Append(fetchLog,
                              [ account |-> Head(accounts), df |-> res.df ])
             /\ failed' = (failed \/ RequestFails(report))
             /\ IF res.raised
                THEN Raise("fetch") /\ src' = src
                ELSE pc' = nxt.pc /\ src' = nxt.src /\ crash' = crash
    /\ windows' = windows \cup { strftime(clock - 1) }
    /\ accounts' = Tail(accounts)
    /\ UNCHANGED << clock, load, df, warehouse, deleteJob, cutoff, listedIds,
                    listed, pushed, appended, nDelete, nAppend, whAtStart,
                    prevLoaded >>

\* ------------------------------------------ BigQueryClient.push_to_bigquery
histVars == << fetchLog, listedIds, listed, failed, windows, whAtStart, prevLoaded >>

\* The empty test, the integer conversion (in place) and the rename.
PushToBigQuery ==
    /\ pc = "push"
    /\ empty(all_data) \/ ~KeyError(all_data)
    /\ pushed' = all_data
    /\ IF empty(all_data)
       THEN /\ pc' = "done"
            /\ UNCHANGED << all_data, df >>
       ELSE /\ all_data' = coerce(all_data)
            /\ df' = rename(coerce(all_data))
            /\ pc' = "delete"
    /\ UNCHANGED << clock, load, src, accounts, warehouse, deleteJob, cutoff,
                    appended, nDelete, nAppend, crash >>
    /\ UNCHANGED histVars

\* df[int_cols] raises KeyError: a count column is in no row of the frame.
PushKeyError ==
    /\ pc = "push"
    /\ ~empty(all_data)
    /\ KeyError(all_data)
    /\ pushed' = all_data
    /\ Raise("coerce")
    /\ UNCHANGED << clock, load, src, accounts, all_data, df, warehouse,
                    deleteJob, cutoff, appended, nDelete, nAppend >>
    /\ UNCHANGED histVars

\* ------------------------------------- BigQueryClient.delete_yesterday_data
\* previous_date is computed from datetime.now() and the query is submitted.
DeleteIssue ==
    /\ pc = "delete"
    /\ cutoff' = strftime(clock - 1)
    /\ deleteJob' = "running"
    /\ nDelete' = nDelete + 1
    /\ pc' = "delete_wait"
    /\ UNCHANGED << clock, load, src, accounts, all_data, df, warehouse,
                    pushed, appended, nAppend, crash >>
    /\ UNCHANGED histVars

\* client.query() raises: the job is not created.
DeleteIssueFail ==
    /\ pc = "delete"
    /\ cutoff' = strftime(clock - 1)
    /\ nDelete' = nDelete + 1
    /\ Raise("delete")
    /\ UNCHANGED << clock, load, src, accounts, all_data, df, warehouse,
                    deleteJob, pushed, appended, nAppend >>
    /\ UNCHANGED histVars

\* The warehouse executes the DELETE job.
JobRun ==
    /\ deleteJob = "running"
    /\ warehouse' = DeleteFrom(warehouse, cutoff)
    /\ deleteJob' = "done"
    /\ UNCHANGED << clock, load, pc, src, accounts, all_data, df, cutoff,
                    pushed, appended, nDelete, nAppend, crash >>
    /\ UNCHANGED histVars

\* The warehouse rejects the DELETE job: no row is removed.
JobFail ==
    /\ deleteJob = "running"
    /\ deleteJob' = "failed"
    /\ UNCHANGED << clock, load, pc, src, accounts, all_data, df, warehouse,
                    cutoff, pushed, appended, nDelete, nAppend, crash >>
    /\ UNCHANGED histVars

\* query_job.result() returns; push_to_bigquery goes on to the append.
DeleteResult ==
    /\ pc = "delete_wait"
    /\ DeleteAcknowledged(deleteJob)
    /\ pc' = "append"
    /\ UNCHANGED << clock, load, src, accounts, all_data, df, warehouse,
                    deleteJob, cutoff, pushed, appended, nDelete, nAppend,
                    crash >>
    /\ UNCHANGED histVars

\* query_job.result() raises the job's error.
DeleteRaise ==
    /\ pc = "delete_wait"
    /\ deleteJob = "failed"
    /\ Raise("delete")
    /\ UNCHANGED << clock, load, src, accounts, all_data, df, warehouse,
                    deleteJob, cutoff, pushed, appended, nDelete, nAppend >>
    /\ UNCHANGED histVars

\* pandas_gbq.to_gbq(..., if_exists='append') succeeds; process_reports and
\* __main__ return.
AppendOK ==
    /\ pc = "append"
    /\ warehouse' = to_gbq(warehouse, df)
    /\ appended' = df
    /\ nAppend' = nAppend + 1
    /\ pc' = "done"
    /\ UNCHANGED << clock, load, src, accounts, all_data, df, deleteJob,
                    cutoff, pushed, nDelete, crash >>
    /\ UNCHANGED histVars

\* Mutant of AppendFail: the exception is caught and the run goes on to
\* report completion.
AppendFailSwallowed ==
    /\ pc = "append"
    /\ nAppend' = nAppend + 1
    /\ pc' = "done"
    /\ crash' = "append"
    /\ UNCHANGED << clock, load, src, accounts, all_data, df, warehouse,
                    deleteJob, cutoff, pushed, appended, nDelete >>
    /\ UNCHANGED histVars

\* to_gbq raises: the load job appended nothing.
AppendFail ==
    /\ pc = "append"
    /\ nAppend' = nAppend + 1
    /\ Raise("append")
    /\ UNCHANGED << clock, load, src, accounts, all_data, df, warehouse,
                    deleteJob, cutoff, pushed, appended, nDelete >>
    /\ UNCHANGED histVars

\* ------------------------------------------------------------ environment
\* Midnight passes.
Tick ==
    /\ clock < MaxDay
    /\ clock' = clock + 1
    /\ UNCHANGED << load, pc, src, accounts, all_data, df, warehouse,
                    deleteJob, cutoff, pushed, appended, nDelete, nAppend,
                    crash >>
    /\ UNCHANGED histVars

Terminal == { "done", "crashed" }

Next ==
    \/ AuthOK
    \/ AuthFail
    \/ BigQueryInit
    \/ BigQueryInitFail
    \/ ListAccounts
    \/ FetchReport
    \/ PushToBigQuery
    \/ PushKeyError
    \/ DeleteIssue
    \/ DeleteIssueFail
    \/ JobRun
    \/ JobFail
    \/ DeleteResult
    \/ DeleteRaise
    \/ AppendOK
    \/ AppendFail
    \/ Tick

\* One execution of the program, against any table.
Spec == Init /\ [][Next]_vars

\* --------------------------------------------- push_to_bigquery, twice over
\* The reports from which the input tables of SpecLoad are built: a report
\* has a row or none; the API may leave one count metric out of the headers,
\* send a row one cell short, and send whole or fractional numbers.
HeaderChoices ==
    { Metrics } \cup { SelectSeq(Metrics, LAMBDA m : m # c) : c \in int_cols }

LoadCells ==
    { [ i \in 1..n |-> text ] :
        n \in { Len(Metrics), Len(Metrics) - 1 }, text \in { "3.0", "3.7" } }

LoadReports(start, end) ==
    { [ raises |-> FALSE, hasRows |-> FALSE, headers |-> Metrics, rows |-> <<>> ] }
    \cup { [ raises |-> FALSE, hasRows |-> TRUE, headers |-> h,
             rows |-> << [ date |-> strftime(d), domain |-> "example.com",
                           country |-> "US", cells |-> c ] >> ] :
           h \in { g \in HeaderChoices : Len(g) = Len(Metrics) }, d \in start..end,
           c \in LoadCells }
    \cup { [ raises |-> FALSE, hasRows |-> TRUE, headers |-> h,
             rows |-> << [ date |-> strftime(d), domain |-> "example.com",
                           country |-> "US",
                           cells |-> [ i \in 1..Len(h) |-> text ] ] >> ] :
           h \in { g \in HeaderChoices : Len(g) < Len(Metrics) }, d \in start..end,
           text \in { "3.0", "3.7" } }

\* The report of the second account: no rows, or one complete row.
PlainReports(start, end) ==
    { r \in LoadReports(start, end) :
        r.hasRows => /\ r.headers = Metrics
                     /\ r.rows[1].cells = FullCells("3.0") }

\* process_reports has fetched one report from each of two accounts on day
\* clock and is about to call push_to_bigquery.
InitLoad ==
    /\ clock = 1
    /\ load = 1
    /\ pc = "push"
    /\ src = NumSources
    /\ accounts = <<>>
    /\ \E r1 \in LoadReports(clock - 1, clock), r2 \in PlainReports(clock - 1, clock) :
         LET f1 == fetch_report(AccountName(1, 1), r1).df
             f2 == fetch_report(AccountName(2, 1), r2).df
         IN  /\ all_data = concat(f1, f2)
             /\ fetchLog = << [ account |-> AccountName(1, 1), df |-> f1 ],
                              [ account |-> AccountName(2, 1), df |-> f2 ] >>
    /\ ~empty(all_data)
    /\ df = <<>>
    /\ warehouse \in SeqsUpTo({ LegacyRow(d) : d \in Days }, MaxInitRows)
    /\ deleteJob = "none"
    /\ cutoff = <<>>
    /\ listedIds = << AccountName(1, 1), AccountName(2, 1) >>
    /\ listed = Sources
    /\ failed = FALSE
    /\ windows = { strftime(clock - 1) }
    /\ pushed = <<>>
    /\ appended = <<>>
    /\ nDelete = 0
    /\ nAppend = 0
    /\ whAtStart = warehouse
    /\ crash = "none"
    /\ prevLoaded = <<>>

\* The program is executed again and its reports yield the table they
\* yielded before: every row of it is dated in the fetch window of the day.
Rerun ==
    /\ pc = "done"
    /\ load < MaxLoads
    /\ \A i \in 1..Len(pushed) :
         pushed[i]["date"] \in { strftime(clock - 1), strftime(clock) }
    /\ load' = load + 1
    /\ prevLoaded' = appended
    /\ all_data' = pushed
    /\ windows' = { strftime(clock - 1) }
    /\ pc' = "push"
    /\ df' = <<>>
    /\ deleteJob' = "none"
    /\ cutoff' = <<>>
    /\ pushed' = <<>>
    /\ appended' = <<>>
    /\ nDelete' = 0
    /\ nAppend' = 0
    /\ whAtStart' = warehouse
    /\ UNCHANGED << clock, src, accounts, warehouse, fetchLog, listedIds,
                    listed, failed, crash >>

NextLoad ==
    \/ PushToBigQuery
    \/ PushKeyError
    \/ DeleteIssue
    \/ DeleteIssueFail
    \/ JobRun
    \/ JobFail
    \/ DeleteResult
    \/ DeleteRaise
    \/ AppendOK
    \/ AppendFail
    \/ Tick
    \/ Rerun

\* push_to_bigquery called MaxLoads times in succession with one table, the
\* table of two reports.
SpecLoad == InitLoad /\ [][NextLoad]_vars

\* ------------------------------------------------------------- properties
Count(r, t) == Cardinality({ i \in 1..Len(t) : t[i] = r })

OnOrAfter(t, date) == SelectSeq(t, LAMBDA row : DateGeq(row["date"], date))

RECURSIVE Flatten(_)
Flatten(log) ==
    IF log = <<>> THEN <<>> ELSE log[1].df \o Flatten(Tail(log))

\* The values a row holds, its NaN entries left out.
Strip(row) ==
    [ c \in { k \in DOMAIN row : k \in KeyCols \/ row[k] # NaN } |-> row[c] ]

SameKey(a, b) ==
    \A c \in KeyCols : a[c] = b[c]

\* The loops of process_reports are over.
PastFetch == listed = Sources /\ accounts = <<>> /\ pc \notin { "list", "fetch" }

\* C1: once a load has deleted and appended, the rows of the table dated on
\* or after the cutoff of its DELETE are exactly the rows it appended that
\* are dated so, whatever the table held before.
C1_OnlyNewRowsInWindow ==
    (pc = "done" /\ nAppend = 1)
        => OnOrAfter(warehouse, cutoff) = OnOrAfter(appended, cutoff)

\* C1 witness: a load completed on a table that held a row in the delete
\* window, and appended a row dated in it.
C1_Witness ==
    /\ pc = "done"
    /\ nAppend = 1
    /\ OnOrAfter(whAtStart, cutoff) # <<>>
    /\ OnOrAfter(appended, cutoff) # <<>>

\* C2: when push_to_bigquery has run twice in succession with one table, of
\* rows dated within the fetch window, the table holds each of its rows as
\* often as the input does.
C2_RerunLeavesOneCopy ==
    (load = MaxLoads /\ pc = "done" /\ nAppend = 1 /\ prevLoaded = appended)
        => \A r \in Range(appended) : Count(r, warehouse) = Count(r, appended)

\* C3: an append is made only once the DELETE job of the load is done, the
\* job ends (and changes the table) only while the load has appended
\* nothing, and after a failed DELETE no append is made.
C3_DeleteThenAppend ==
    [][ /\ nAppend' > nAppend => (deleteJob = "done" /\ nDelete = 1)
        /\ (deleteJob = "running" /\ deleteJob' # deleteJob)
              => (nAppend = 0 /\ appended = <<>>)
        /\ deleteJob' = "failed" => (nAppend' = 0 /\ pc' # "append") ]_vars

\* C3 witness: the DELETE removed rows and the append followed.
C3_Witness ==
    /\ pc = "done"
    /\ deleteJob = "done"
    /\ nAppend = 1
    /\ Len(warehouse) < Len(whAtStart) + Len(appended)

\* C4: a failed list or report request never ends the run; the loops go on
\* over every source and every listed account, every row fetched is in the
\* consolidated table, and every one is among the rows appended.
C4_PartialFailureIsolation ==
    /\ crash \notin { "list", "fetch" }
    /\ PastFetch =>
         [ k \in 1..Len(fetchLog) |-> fetchLog[k].account ] = listedIds
    /\ (PastFetch /\ (pc = "push" \/ pushed # <<>>)) =>
         LET table == IF pc = "push" THEN all_data ELSE pushed
         IN  \A r \in Range(Flatten(fetchLog)) :
               \E i \in 1..Len(table) : Strip(table[i]) = Strip(r)
    /\ (nAppend = 1 /\ pc = "done") =>
         /\ Len(appended) = Len(Flatten(fetchLog))
         /\ \A r \in Range(Flatten(fetchLog)) :
              \E i \in 1..Len(appended) : SameKey(appended[i], r)

\* C4 witness: a request failed and the rows of the other accounts were
\* loaded.
C4_Witness ==
    /\ failed
    /\ pc = "done"
    /\ nAppend = 1
    /\ \E k \in 1..Len(fetchLog) : fetchLog[k].df = <<>>
    /\ appended # <<>>

\* C5: when the authentication of one source has failed and the run is
\* over, the accounts of every other source have been listed.
C5_AuthFailureIsolated ==
    (pc \in Terminal /\ crash = "auth") => listed = Sources \ {src}

\* C6: when the loops end with an empty table, the run ends as completed,
\* no DELETE and no append is made, and the table is as it was.
C6_EmptyTableNoOp ==
    (PastFetch /\ all_data = <<>>)
        => /\ pc = "done"
           /\ crash = "none"
           /\ nDelete = 0
           /\ nAppend = 0
           /\ deleteJob = "none"
           /\ warehouse = whAtStart

\* C6 witness: every report came back without rows, against a table that
\* holds rows.
C6_Witness ==
    /\ PastFetch
    /\ all_data = <<>>
    /\ fetchLog # <<>>
    /\ whAtStart # <<>>
    /\ pc = "done"

\* The account of log entry i comes before that of entry j: an earlier
\* source, or the same source and an earlier place in its list.
Before(a, b) == a[2] < b[2] \/ (a[2] = b[2] /\ a[3] < b[3])

\* C7: while the reports are fetched and when the table is pushed, the
\* consolidated table is the rows of the reports one after the other, each
\* as often as fetched, the reports being in source-then-account order; from
\* empty reports alone it is empty.
C7_ConsolidationIsConcatenation ==
    LET table == IF pc \in { "list", "fetch", "push" } THEN all_data ELSE pushed
        rows == Flatten(fetchLog)
    IN  /\ \A i, j \in 1..Len(fetchLog) :
             i < j => Before(fetchLog[i].account, fetchLog[j].account)
        /\ (pc \in { "list", "fetch", "push" } \/ pushed # <<>>) =>
             /\ Len(table) = Len(rows)
             /\ \A i \in 1..Len(rows) : Strip(table[i]) = Strip(rows[i])

\* C7 witness: the table pushed holds two rows, of two different reports.
C7_Witness ==
    /\ pc = "push"
    /\ Len(all_data) = 2
    /\ \E i, j \in 1..Len(fetchLog) :
         i # j /\ fetchLog[i].df # <<>> /\ fetchLog[j].df # <<>>

\* A count column has no value in a row: the column is not there, or NaN.
Missing(row, c) == c \notin DOMAIN row \/ row[c] = NaN

\* C8: push_to_bigquery never fails in the integer conversion of a table
\* that is not empty, and in the frame it appends every count column is
\* there, 0 where the row had no value and 3 where it had 3.0.
C8_IntegerCoercion ==
    /\ crash # "coerce"
    /\ \A i \in 1..Len(df) : \A c \in int_cols :
         /\ c \in DOMAIN df[i]
         /\ Missing(pushed[i], c) => df[i][c] = IntVal(0)
         /\ (~Missing(pushed[i], c) /\ pushed[i][c] = FloatVal(300))
                => df[i][c] = IntVal(3)

\* C9: when the append has failed after the DELETE, the table holds no row
\* dated on or after the cutoff, the run has ended with the exception and
\* not as completed, and it made one DELETE and one append.
C9_AppendFailure ==
    /\ nDelete <= 1
    /\ nAppend <= 1
    /\ crash = "append" =>
         /\ pc = "crashed"
         /\ deleteJob = "done"
         /\ nDelete = 1
         /\ nAppend = 1
         /\ appended = <<>>
         /\ OnOrAfter(warehouse, cutoff) = <<>>
         /\ Len(warehouse) = Len(whAtStart) - Len(OnOrAfter(whAtStart, cutoff))

\* C9 witness: the append failed after the DELETE had removed rows.
C9_Witness ==
    /\ crash = "append"
    /\ OnOrAfter(whAtStart, cutoff) # <<>>
    /\ df # <<>>

\* C10: the start date of every fetch window of a run is the cutoff of its
\* DELETE.
C10_WindowsAligned ==
    cutoff # <<>> => \A w \in windows : w = cutoff

====
